---- MODULE Spec2Model ----
(***************************************************************************)
(* A model of sr830.py: the SR830 lock-in amplifier driver.                *)
(*                                                                         *)
(* The driver object holds a pyVISA session (self.inst), two lookup tables *)
(* per setting (label -> code string, code -> physical value) and two      *)
(* cached scalars (self.it, self.v).  Every method is a straight-line      *)
(* sequence of bus writes/queries, table lookups and string conversions.   *)
(* Strings that cross the bus are sequences of one-character strings, so   *)
(* that str(), int(), float() and the [:-1] slice are computed, not        *)
(* assumed.  Physical values are decimal pairs <<m, e>> meaning m * 10^e.  *)
(***************************************************************************)
EXTENDS Integers, Sequences, FiniteSets, TLC

VARIABLES
    session,   \* self.inst: "Uninit" (no object yet), "Open" or "Closed"
    dev,       \* the instrument's registers and reference frequency
    it, v,     \* self.it, self.v
    last,      \* the most recent call: arguments, outcome, return value, bus trace
    prev       \* the call before it, when that was setSync or a set by name
               \* that returned normally

vars == <<session, dev, it, v, last, prev>>

-----------------------------------------------------------------------------
(* Bounds of the exploration                                               *)

\* how far beyond a table's ends the index arguments range
IdxSlack == 1

-----------------------------------------------------------------------------
(* Python values and conversions                                           *)

None == "None"

\* the cached values before __init__ has assigned them
Unset == <<>>

Digits == <<"0", "1", "2", "3", "4", "5", "6", "7", "8", "9">>

RECURSIVE NatStr(_)
NatStr(n) == IF n < 10 THEN <<Digits[n + 1]>>
             ELSE NatStr(n \div 10) \o <<Digits[(n % 10) + 1]>>

\* str(int(i))
str(n) == IF n < 0 THEN <<"-">> \o NatStr(-n) ELSE NatStr(n)

IsDigit(c) == \E k \in 1..10 : Digits[k] = c

DigitVal(c) == (CHOOSE k \in 1..10 : Digits[k] = c) - 1

RECURSIVE NatVal(_)
NatVal(s) == IF Len(s) = 0 THEN 0
             ELSE 10 * NatVal(SubSeq(s, 1, Len(s) - 1)) + DigitVal(s[Len(s)])

AllDigits(s) == Len(s) > 0 /\ \A k \in 1..Len(s) : IsDigit(s[k])

\* int(s) succeeds (otherwise ValueError)
IntOK(s) == IF Len(s) > 0 /\ s[1] = "-" THEN AllDigits(Tail(s)) ELSE AllDigits(s)

\* int(s)
IntVal(s) == IF s[1] = "-" THEN 0 - NatVal(Tail(s)) ELSE NatVal(s)

\* s[:-1]
ButLast(s) == IF Len(s) = 0 THEN s ELSE SubSeq(s, 1, Len(s) - 1)

\* float(s) and int(s) ignore surrounding whitespace; responses end in "\n"
Strip(s) == IF Len(s) > 0 /\ s[Len(s)] = "\n" THEN ButLast(s) ELSE s

\* seq[i] with Python's negative indices; IndexError when ~IndexOK
IndexOK(seq, i) == -Len(seq) <= i /\ i < Len(seq)

PyGet(seq, i) == IF i >= 0 THEN seq[i + 1] ELSE seq[Len(seq) + i + 1]

\* dict as the sequence of its (key, value) items in insertion order
HasKey(dict, k) == \E n \in 1..Len(dict) : dict[n][1] = k

Lookup(dict, k) == dict[CHOOSE n \in 1..Len(dict) : dict[n][1] = k][2]

\* list(dict.keys())
Keys(dict) == [n \in 1..Len(dict) |-> dict[n][1]]

-----------------------------------------------------------------------------
(* The tables built by __init__                                            *)

sens == << <<"2nV", <<"0">> >>, <<"5nV", <<"1">> >>, <<"10nV", <<"2">> >>,
           <<"20nV", <<"3">> >>, <<"50nV", <<"4">> >>, <<"100nV", <<"5">> >>,
           <<"200nV", <<"6">> >>, <<"500nV", <<"7">> >>, <<"1uV", <<"8">> >>,
           <<"2uV", <<"9">> >>, <<"5uV", <<"1", "0">> >>, <<"10uV", <<"1", "1">> >>,
           <<"20uV", <<"1", "2">> >>, <<"50uV", <<"1", "3">> >>, <<"100uV", <<"1", "4">> >>,
           <<"200uV", <<"1", "5">> >>, <<"500uV", <<"1", "6">> >>, <<"1mV", <<"1", "7">> >>,
           <<"2mV", <<"1", "8">> >>, <<"5mV", <<"1", "9">> >>, <<"10mV", <<"2", "0">> >>,
           <<"20mV", <<"2", "1">> >>, <<"50mV", <<"2", "2">> >>, <<"100mV", <<"2", "3">> >>,
           <<"200mV", <<"2", "4">> >>, <<"500mV", <<"2", "5">> >>, <<"1V", <<"2", "6">> >> >>

volt == << <<2, -9>>, <<5, -9>>, <<1, -8>>,
           <<2, -8>>, <<5, -8>>, <<1, -7>>,
           <<2, -7>>, <<5, -7>>, <<1, -6>>,
           <<2, -6>>, <<5, -6>>, <<1, -5>>,
           <<2, -5>>, <<5, -5>>, <<1, -4>>,
           <<2, -4>>, <<5, -4>>, <<1, -3>>,
           <<2, -3>>, <<5, -3>>, <<1, -2>>,
           <<2, -2>>, <<5, -2>>, <<1, -1>>,
           <<2, -1>>, <<5, -1>>, <<1, 0>> >>

oflt == << <<"10us", <<"0">> >>, <<"30us", <<"1">> >>, <<"100us", <<"2">> >>,
           <<"300us", <<"3">> >>, <<"1ms", <<"4">> >>, <<"3ms", <<"5">> >>,
           <<"10ms", <<"6">> >>, <<"30ms", <<"7">> >>, <<"100ms", <<"8">> >>,
           <<"300ms", <<"9">> >>, <<"1s", <<"1", "0">> >>, <<"3s", <<"1", "1">> >>,
           <<"10s", <<"1", "2">> >>, <<"30s", <<"1", "3">> >>, <<"100s", <<"1", "4">> >>,
           <<"300s", <<"1", "5">> >>, <<"1ks", <<"1", "6">> >>, <<"3ks", <<"1", "7">> >>,
           <<"10ks", <<"1", "8">> >>, <<"30ks", <<"1", "9">> >> >>

time == << <<1, -5>>, <<3, -5>>, <<1, -4>>, <<3, -4>>,
           <<1, -3>>, <<3, -3>>, <<1, -2>>, <<3, -2>>, <<1, -1>>, <<3, -1>>,
           <<1, 0>>, <<3, 0>>, <<1, 1>>, <<3, 1>>, <<1, 2>>, <<3, 2>>,
           <<1, 3>>, <<3, 3>>, <<1, 4>>, <<3, 4>> >>

\* the frequency above which setSync prints its advisory
FreqLimit == 200

-----------------------------------------------------------------------------
(* The instrument and the bus                                              *)

\* one entry of a call's bus trace: a write, a query or the settle sleep
Ev(kind, cmd, arg) == [kind |-> kind, cmd |-> cmd, arg |-> arg]

Sleep == Ev("sleep", "", <<>>)

\* the values the instrument reports for OUTP? 1..4 (X, Y, R, phase)
OutVal == <<3, -4, 5, -53>>

\* the instrument executing a command string: a register command with a code
\* in the register's range is stored, anything else changes nothing
DevWrite(d, cmd, arg) ==
    IF cmd = "OFLT " /\ IntOK(arg) /\ IntVal(arg) \in 0..(Len(time) - 1)
    THEN [d EXCEPT !.OFLT = IntVal(arg)]
    ELSE IF cmd = "SENS " /\ IntOK(arg) /\ IntVal(arg) \in 0..(Len(volt) - 1)
    THEN [d EXCEPT !.SENS = IntVal(arg)]
    ELSE IF cmd = "SYNC " /\ IntOK(arg) /\ IntVal(arg) \in 0..1
    THEN [d EXCEPT !.SYNC = IntVal(arg)]
    ELSE d

\* the instrument has a response to this string
DevAnswers(cmd, arg) ==
    \/ cmd \in {"*IDN?", "OFLT ?", "SENS ?", "SYNC ?", "FREQ ?"} /\ arg = <<>>
    \/ cmd = "OUTP? " /\ IntOK(arg) /\ IntVal(arg) \in 1..Len(OutVal)

\* the response line, terminated by a newline
DevQuery(d, cmd, arg) ==
    (IF cmd = "*IDN?" THEN <<"S", "R", "8", "3", "0">>
     ELSE IF cmd = "OFLT ?" THEN str(d.OFLT)
     ELSE IF cmd = "SENS ?" THEN str(d.SENS)
     ELSE IF cmd = "SYNC ?" THEN str(d.SYNC)
     ELSE IF cmd = "FREQ ?" THEN str(d.FREQ)
     ELSE str(OutVal[IntVal(arg)])) \o <<"\n">>

\* self.inst.write(cmd + arg); fail: the transport raises on this call
InstWrite(s, d, cmd, arg, fail) ==
    IF s # "Open"
    THEN [ok |-> FALSE, err |-> "InvalidSession", dev |-> d, io |-> <<>>, resp |-> <<>>]
    ELSE IF fail
    THEN [ok |-> FALSE, err |-> "VisaIOError", dev |-> d, io |-> <<>>, resp |-> <<>>]
    ELSE [ok |-> TRUE, err |-> "", dev |-> DevWrite(d, cmd, arg),
          io |-> <<Ev("write", cmd, arg)>>, resp |-> <<>>]

\* self.inst.query(cmd + arg): the string is sent, then a response is read;
\* an instrument that has no response lets the read time out
InstQuery(s, d, cmd, arg, fail) ==
    IF s # "Open"
    THEN [ok |-> FALSE, err |-> "InvalidSession", dev |-> d, io |-> <<>>, resp |-> <<>>]
    ELSE IF fail
    THEN [ok |-> FALSE, err |-> "VisaIOError", dev |-> d, io |-> <<>>, resp |-> <<>>]
    ELSE IF ~DevAnswers(cmd, arg)
    THEN [ok |-> FALSE, err |-> "VisaIOError", dev |-> DevWrite(d, cmd, arg),
          io |-> <<Ev("query", cmd, arg)>>, resp |-> <<>>]
    ELSE [ok |-> TRUE, err |-> "", dev |-> d,
          io |-> <<Ev("query", cmd, arg)>>, resp |-> DevQuery(d, cmd, arg)]

-----------------------------------------------------------------------------
(* The methods of class SR830.  Each takes the session state s, the        *)
(* instrument d, the cached values c = [it, v], its arguments, and f, the  *)
(* number of the bus call on which the transport raises (0: none).  Each   *)
(* yields the call's outcome ("ok" or the exception), its return value (a  *)
(* tuple, empty for None), its bus trace, whether the advisory was         *)
(* printed, and the instrument and cache it leaves.                        *)

Result(outcome, ret, io, adv, d, c) ==
    [outcome |-> outcome, ret |-> ret, io |-> io, adv |-> adv, dev |-> d, c |-> c]

\* the exception of the failed bus call r leaves the method
Raise(r, io, c) == Result(r.err, <<>>, io, FALSE, r.dev, c)

\* how evaluating tbl[int(n)] ends
Subscript(tbl, n) == IF ~IntOK(n) THEN "ValueError"
                     ELSE IF ~IndexOK(tbl, IntVal(n)) THEN "IndexError"
                     ELSE "ok"

\* how evaluating float(r) ends
Float(r) == IF IntOK(Strip(r)) THEN "ok" ELSE "ValueError"

getFreq_return(q, c) ==
    IF ~q.ok THEN Raise(q, q.io, c)
    ELSE IF Float(q.resp) # "ok" THEN Result(Float(q.resp), <<>>, q.io, FALSE, q.dev, c)
    ELSE Result("ok", <<IntVal(Strip(q.resp))>>, q.io, FALSE, q.dev, c)

getFreq(s, d, c, f) == getFreq_return(InstQuery(s, d, "FREQ ?", <<>>, f = 1), c)

\* setSync advising at the limit too: getFreq() >= 200
setSync_advise_atLimit(w, g, c, i) ==
    IF g.outcome # "ok" THEN Result(g.outcome, <<>>, w.io \o <<Sleep>> \o g.io, FALSE, g.dev, c)
    ELSE Result("ok", <<>>, w.io \o <<Sleep>> \o g.io,
                g.ret[1] >= FreqLimit /\ i = 1, g.dev, c)

setSync_advise(w, g, c, i) ==
    IF g.outcome # "ok" THEN Result(g.outcome, <<>>, w.io \o <<Sleep>> \o g.io, FALSE, g.dev, c)
    ELSE Result("ok", <<>>, w.io \o <<Sleep>> \o g.io,
                g.ret[1] > FreqLimit /\ i = 1, g.dev, c)

setSync_written(s, w, c, i, f) ==
    IF ~w.ok THEN Raise(w, w.io, c)
    ELSE setSync_advise(w, getFreq(s, w.dev, c, IF f = 2 THEN 1 ELSE 0), c, i)

setSync(s, d, c, i, f) ==
    setSync_written(s, InstWrite(s, d, "SYNC ", str(i), f = 1), c, i, f)

getSync_return(q, c) ==
    IF ~q.ok THEN Raise(q, q.io, c)
    ELSE IF Subscript(<<"ON", "OFF">>, ButLast(q.resp)) # "ok"
    THEN Result(Subscript(<<"ON", "OFF">>, ButLast(q.resp)), <<>>, q.io, FALSE, q.dev, c)
    ELSE Result("ok", <<PyGet(<<"ON", "OFF">>, IntVal(ButLast(q.resp)))>>,
                q.io, FALSE, q.dev, c)

getSync(s, d, c, f) == getSync_return(InstQuery(s, d, "SYNC ?", <<>>, f = 1), c)

\* name given: self.it = self.time[int(self.inst.query("OFLT ?")[:-1])]
setIT_confirm(w, q, c) ==
    IF ~q.ok THEN Raise(q, w.io \o <<Sleep>>, c)
    ELSE IF Subscript(time, ButLast(q.resp)) # "ok"
    THEN Result(Subscript(time, ButLast(q.resp)), <<>>, w.io \o <<Sleep>> \o q.io,
                FALSE, q.dev, c)
    ELSE Result("ok", <<>>, w.io \o <<Sleep>> \o q.io, FALSE, q.dev,
                [c EXCEPT !.it = PyGet(time, IntVal(ButLast(q.resp)))])

\* setIT by name caching the value it wrote before the confirming read
setIT_named_eager(s, w, c, f) ==
    IF ~w.ok THEN Raise(w, w.io, c)
    ELSE setIT_confirm(w, InstQuery(s, w.dev, "OFLT ?", <<>>, f = 2),
                       [c EXCEPT !.it = time[w.dev.OFLT + 1]])

setIT_named(s, w, c, f) ==
    IF ~w.ok THEN Raise(w, w.io, c)
    ELSE setIT_confirm(w, InstQuery(s, w.dev, "OFLT ?", <<>>, f = 2), c)

\* no name: self.it = self.time[i]
setIT_indexed(w, c, i) ==
    IF ~w.ok THEN Raise(w, w.io, c)
    ELSE IF ~IndexOK(time, i)
    THEN Result("IndexError", <<>>, w.io \o <<Sleep>>, FALSE, w.dev, c)
    ELSE Result("ok", <<>>, w.io \o <<Sleep>>, FALSE, w.dev,
                [c EXCEPT !.it = PyGet(time, i)])

setIT(s, d, c, name, i, f) ==
    IF name # None
    THEN IF ~HasKey(oflt, name) THEN Result("KeyError", <<>>, <<>>, FALSE, d, c)
         ELSE setIT_named(s, InstWrite(s, d, "OFLT ", Lookup(oflt, name), f = 1), c, f)
    ELSE setIT_indexed(InstWrite(s, d, "OFLT ", str(i), f = 1), c, i)

getIT_return(q, c) ==
    IF ~q.ok THEN Raise(q, q.io, c)
    ELSE IF Subscript(Keys(oflt), ButLast(q.resp)) # "ok"
    THEN Result(Subscript(Keys(oflt), ButLast(q.resp)), <<>>, q.io, FALSE, q.dev, c)
    ELSE Result("ok", <<PyGet(Keys(oflt), IntVal(ButLast(q.resp)))>>, q.io, FALSE, q.dev, c)

getIT(s, d, c, f) == getIT_return(InstQuery(s, d, "OFLT ?", <<>>, f = 1), c)

\* name given: self.v = self.volt[int(self.inst.query("SENS ?")[:-1])]
setSens_confirm(w, q, c) ==
    IF ~q.ok THEN Raise(q, w.io \o <<Sleep>>, c)
    ELSE IF Subscript(volt, ButLast(q.resp)) # "ok"
    THEN Result(Subscript(volt, ButLast(q.resp)), <<>>, w.io \o <<Sleep>> \o q.io,
                FALSE, q.dev, c)
    ELSE Result("ok", <<>>, w.io \o <<Sleep>> \o q.io, FALSE, q.dev,
                [c EXCEPT !.v = PyGet(volt, IntVal(ButLast(q.resp)))])

setSens_named(s, w, c, f) ==
    IF ~w.ok THEN Raise(w, w.io, c)
    ELSE setSens_confirm(w, InstQuery(s, w.dev, "SENS ?", <<>>, f = 2), c)

\* setSens by index caching from the other table: self.v = self.time[i]
setSens_indexed_otherTable(w, c, i) ==
    IF ~w.ok THEN Raise(w, w.io, c)
    ELSE IF ~IndexOK(time, i)
    THEN Result("IndexError", <<>>, w.io \o <<Sleep>>, FALSE, w.dev, c)
    ELSE Result("ok", <<>>, w.io \o <<Sleep>>, FALSE, w.dev,
                [c EXCEPT !.v = PyGet(time, i)])

\* no name: self.v = self.volt[i]
setSens_indexed(w, c, i) ==
    IF ~w.ok THEN Raise(w, w.io, c)
    ELSE IF ~IndexOK(volt, i)
    THEN Result("IndexError", <<>>, w.io \o <<Sleep>>, FALSE, w.dev, c)
    ELSE Result("ok", <<>>, w.io \o <<Sleep>>, FALSE, w.dev,
                [c EXCEPT !.v = PyGet(volt, i)])

setSens(s, d, c, name, i, f) ==
    IF name # None
    THEN IF ~HasKey(sens, name) THEN Result("KeyError", <<>>, <<>>, FALSE, d, c)
         ELSE setSens_named(s, InstWrite(s, d, "SENS ", Lookup(sens, name), f = 1), c, f)
    ELSE setSens_indexed(InstWrite(s, d, "SENS ", str(i), f = 1), c, i)

\* getSens reading the labels of the other table
getSens_otherTable(q, c) ==
    IF ~q.ok THEN Raise(q, q.io, c)
    ELSE IF Subscript(Keys(oflt), ButLast(q.resp)) # "ok"
    THEN Result(Subscript(Keys(oflt), ButLast(q.resp)), <<>>, q.io, FALSE, q.dev, c)
    ELSE Result("ok", <<PyGet(Keys(oflt), IntVal(ButLast(q.resp)))>>, q.io, FALSE, q.dev, c)

getSens_return(q, c) ==
    IF ~q.ok THEN Raise(q, q.io, c)
    ELSE IF Subscript(Keys(sens), ButLast(q.resp)) # "ok"
    THEN Result(Subscript(Keys(sens), ButLast(q.resp)), <<>>, q.io, FALSE, q.dev, c)
    ELSE Result("ok", <<PyGet(Keys(sens), IntVal(ButLast(q.resp)))>>, q.io, FALSE, q.dev, c)

getSens(s, d, c, f) == getSens_return(InstQuery(s, d, "SENS ?", <<>>, f = 1), c)

getOut_return(q, c) ==
    IF ~q.ok THEN Raise(q, q.io, c)
    ELSE IF Float(q.resp) # "ok" THEN Result(Float(q.resp), <<>>, q.io, FALSE, q.dev, c)
    ELSE Result("ok", <<IntVal(Strip(q.resp))>>, q.io, FALSE, q.dev, c)

\* getOut asserting i >= 0 instead of i > 0
getOut_offByOne(s, d, c, i, f) ==
    IF ~(i < 5 /\ i >= 0) THEN Result("AssertionError", <<>>, <<>>, FALSE, d, c)
    ELSE getOut_return(InstQuery(s, d, "OUTP? ", str(i), f = 1), c)

getOut(s, d, c, i, f) ==
    IF ~(i < 5 /\ i > 0) THEN Result("AssertionError", <<>>, <<>>, FALSE, d, c)
    ELSE getOut_return(InstQuery(s, d, "OUTP? ", str(i), f = 1), c)

\* np.array([float(first response), float(second response)])
OutPair_return(q1, q2, c) ==
    IF ~q2.ok THEN Raise(q2, q1.io \o q2.io, c)
    ELSE IF Float(q2.resp) # "ok"
    THEN Result(Float(q2.resp), <<>>, q1.io \o q2.io, FALSE, q2.dev, c)
    ELSE Result("ok", <<IntVal(Strip(q1.resp)), IntVal(Strip(q2.resp))>>,
                q1.io \o q2.io, FALSE, q2.dev, c)

OutPair_second(s, q1, c, b, f) ==
    IF ~q1.ok THEN Raise(q1, q1.io, c)
    ELSE IF Float(q1.resp) # "ok" THEN Result(Float(q1.resp), <<>>, q1.io, FALSE, q1.dev, c)
    ELSE OutPair_return(q1, InstQuery(s, q1.dev, "OUTP? ", str(b), f = 2), c)

getRTh(s, d, c, f) ==
    OutPair_second(s, InstQuery(s, d, "OUTP? ", str(3), f = 1), c, 4, f)

getXY(s, d, c, f) ==
    OutPair_second(s, InstQuery(s, d, "OUTP? ", str(1), f = 1), c, 2, f)

\* the bus call of write has ended; the method has no return statement
write_return(r, c) ==
    IF ~r.ok THEN Raise(r, r.io, c) ELSE Result("ok", <<>>, r.io, FALSE, r.dev, c)

\* message is the pair <<cmd, arg>> of a command string
write(s, d, c, message, q, f) ==
    IF q THEN write_return(InstQuery(s, d, message[1], message[2], f = 1), c)
    ELSE write_return(InstWrite(s, d, message[1], message[2], f = 1), c)

\* close that forgets to end the session
close_forgotten(s) == s

\* self.inst.close(): the session ends; closing an ended session is harmless
close(s) == "Closed"

\* __init__, last statement: self.v = self.volt[int(query("SENS ?")[:-1])]
SR830_v(io, adv, t, q, c) ==
    IF ~q.ok THEN Raise(q, io, c)
    ELSE IF Subscript(volt, ButLast(q.resp)) # "ok"
    THEN Result(Subscript(volt, ButLast(q.resp)), <<>>, io \o q.io, adv, q.dev, c)
    ELSE Result("ok", <<>>, io \o q.io, adv, q.dev,
                [it |-> t, v |-> PyGet(volt, IntVal(ButLast(q.resp)))])

\* __init__: self.it = self.time[int(query("OFLT ?")[:-1])]
SR830_it(io, adv, q, c, f) ==
    IF ~q.ok THEN Raise(q, io, c)
    ELSE IF Subscript(time, ButLast(q.resp)) # "ok"
    THEN Result(Subscript(time, ButLast(q.resp)), <<>>, io \o q.io, adv, q.dev, c)
    ELSE SR830_v(io \o q.io, adv, PyGet(time, IntVal(ButLast(q.resp))),
                 InstQuery("Open", q.dev, "SENS ?", <<>>, f = 6), c)

\* __init__: self.setSync() has ended
SR830_synced(io, y, c, f) ==
    IF y.outcome # "ok" THEN Result(y.outcome, <<>>, io \o y.io, FALSE, y.dev, c)
    ELSE SR830_it(io \o y.io, y.adv, InstQuery("Open", y.dev, "OFLT ?", <<>>, f = 5), c, f)

\* __init__: print(self.inst.query("*IDN?")) has ended
SR830_identified(q, c, f) ==
    IF ~q.ok THEN Raise(q, q.io, c)
    ELSE SR830_synced(q.io, setSync("Open", q.dev, c, 1, IF f \in {3, 4} THEN f - 2 ELSE 0),
                      c, f)

\* SR830(resourceLoc): __init__.  f = 1 is rm.open_resource raising; otherwise
\* the session the later calls use is open.
SR830(d, f) ==
    IF f = 1 THEN Result("VisaIOError", <<>>, <<>>, FALSE, d, [it |-> Unset, v |-> Unset])
    ELSE SR830_identified(InstQuery("Open", d, "*IDN?", <<>>, f = 2),
                          [it |-> Unset, v |-> Unset], f)

-----------------------------------------------------------------------------
(* State machine: one action per call a client makes                       *)

NoMsg == <<"", <<>>>>

NoPrev == [op |-> "", name |-> None, i |-> 0]

PrevOf(l) == IF /\ l.outcome = "ok"
                /\ \/ l.op = "setSync"
                   \/ l.op \in {"setIT", "setSens"} /\ l.name # None
             THEN [op |-> l.op, name |-> l.name, i |-> l.i]
             ELSE NoPrev

Record(op, name, i, msg, q, f, r) ==
    [op |-> op, name |-> name, i |-> i, msg |-> msg, q |-> q, f |-> f,
     outcome |-> r.outcome, ret |-> r.ret, io |-> r.io, adv |-> r.adv]

\* a method call on the existing object
Call(op, name, i, msg, q, f, r) ==
    /\ session # "Uninit"
    /\ dev' = r.dev
    /\ it' = r.c.it
    /\ v' = r.c.v
    /\ last' = Record(op, name, i, msg, q, f, r)
    /\ prev' = PrevOf(last)
    /\ UNCHANGED session

Cache == [it |-> it, v |-> v]

\* the reference frequencies explored: at the advisory limit and just above
Freqs == {FreqLimit, FreqLimit + 1}

Init ==
    /\ session = "Uninit"
    /\ dev \in [OFLT : {0, Len(time) - 1}, SENS : {0, Len(volt) - 1},
                SYNC : {0, 1}, FREQ : Freqs]
    /\ it = Unset
    /\ v = Unset
    /\ last = Record("", None, 0, NoMsg, FALSE, 0,
                     Result("ok", <<>>, <<>>, FALSE, dev, [it |-> Unset, v |-> Unset]))
    /\ prev = NoPrev

Construct(F) ==
    /\ session = "Uninit"
    /\ \E f \in F \cap 0..6 :
         \E r \in {SR830(dev, f)} :
             /\ session' = IF r.outcome = "ok" THEN "Open" ELSE "Uninit"
             /\ dev' = r.dev
             /\ it' = r.c.it
             /\ v' = r.c.v
             /\ last' = Record("SR830", None, 0, NoMsg, FALSE, f, r)
             /\ prev' = NoPrev

SetITName(N, F) ==
    \E name \in N, f \in F \cap 0..2 :
        \E r \in {setIT(session, dev, Cache, name, 10, f)} :
            Call("setIT", name, 10, NoMsg, FALSE, f, r)

SetITIndex(I, F) ==
    \E i \in I, f \in F \cap 0..1 :
        \E r \in {setIT(session, dev, Cache, None, i, f)} :
            Call("setIT", None, i, NoMsg, FALSE, f, r)

GetIT(F) ==
    \E f \in F \cap 0..1 :
        \E r \in {getIT(session, dev, Cache, f)} :
            Call("getIT", None, 0, NoMsg, FALSE, f, r)

SetSensName(N, F) ==
    \E name \in N, f \in F \cap 0..2 :
        \E r \in {setSens(session, dev, Cache, name, 11, f)} :
            Call("setSens", name, 11, NoMsg, FALSE, f, r)

SetSensIndex(I, F) ==
    \E i \in I, f \in F \cap 0..1 :
        \E r \in {setSens(session, dev, Cache, None, i, f)} :
            Call("setSens", None, i, NoMsg, FALSE, f, r)

GetSens(F) ==
    \E f \in F \cap 0..1 :
        \E r \in {getSens(session, dev, Cache, f)} :
            Call("getSens", None, 0, NoMsg, FALSE, f, r)

SetSync(F) ==
    \E i \in {0, 1}, f \in F \cap 0..2 :
        \E r \in {setSync(session, dev, Cache, i, f)} :
            Call("setSync", None, i, NoMsg, FALSE, f, r)

GetSync(F) ==
    \E f \in F \cap 0..1 :
        \E r \in {getSync(session, dev, Cache, f)} :
            Call("getSync", None, 0, NoMsg, FALSE, f, r)

GetFreq(F) ==
    \E f \in F \cap 0..1 :
        \E r \in {getFreq(session, dev, Cache, f)} :
            Call("getFreq", None, 0, NoMsg, FALSE, f, r)

GetOut(I, F) ==
    \E i \in I, f \in F \cap 0..1 :
        \E r \in {getOut(session, dev, Cache, i, f)} :
            Call("getOut", None, i, NoMsg, FALSE, f, r)

GetRTh(F) ==
    \E f \in F \cap 0..2 :
        \E r \in {getRTh(session, dev, Cache, f)} :
            Call("getRTh", None, 0, NoMsg, FALSE, f, r)

GetXY(F) ==
    \E f \in F \cap 0..2 :
        \E r \in {getXY(session, dev, Cache, f)} :
            Call("getXY", None, 0, NoMsg, FALSE, f, r)

Write(M, F) ==
    \E message \in M, q \in BOOLEAN, f \in F \cap 0..1 :
        \E r \in {write(session, dev, Cache, message, q, f)} :
            Call("write", None, 0, message, q, f, r)

Close ==
    /\ session # "Uninit"
    /\ session' = close(session)
    /\ last' = Record("close", None, 0, NoMsg, FALSE, 0,
                      Result("ok", <<>>, <<>>, FALSE, dev, Cache))
    /\ prev' = PrevOf(last)
    /\ UNCHANGED <<dev, it, v>>

-----------------------------------------------------------------------------
(* Inputs                                                                  *)

Unknown == "bogus"

Faults == 0..6

NoFaults == {0}

\* every label of a table, and one that is in neither
AllNames(dict) == {dict[n][1] : n \in 1..Len(dict)} \cup {Unknown}

\* every index of a table, Python's negative ones included, and IdxSlack beyond
AllIndices(seq) == (0 - Len(seq) - IdxSlack)..(Len(seq) - 1 + IdxSlack)

\* the first label of a table, and one that is in neither
SomeNames(dict) == {dict[1][1], Unknown}

\* the indices around a table's last entry, and the negative ones next to 0
SomeIndices(seq) == ((0 - IdxSlack)..(0 - 1)) \cup ((Len(seq) - 1)..(Len(seq) - 1 + IdxSlack))

Channels == (1 - IdxSlack)..(4 + IdxSlack)

RawMessages == {<<"SYNC ", <<"0">>>>, <<"SYNC ?", <<>>>>}

-----------------------------------------------------------------------------
(* Specifications                                                          *)

\* every method, sampled arguments, transport faults on every bus call
Next ==
    \/ Construct(Faults)
    \/ SetITName(SomeNames(oflt), Faults)
    \/ SetITIndex(SomeIndices(time), Faults)
    \/ GetIT(Faults)
    \/ SetSensName(SomeNames(sens), Faults)
    \/ SetSensIndex(SomeIndices(volt), Faults)
    \/ GetSens(Faults)
    \/ SetSync(Faults)
    \/ GetSync(Faults)
    \/ GetFreq(Faults)
    \/ GetOut(Channels, Faults)
    \/ GetRTh(Faults)
    \/ GetXY(Faults)
    \/ Write(RawMessages, Faults)
    \/ Close

Spec == Init /\ [][Next]_vars

\* the sensitivity methods over the whole table, on a working transport
NextSens ==
    \/ Construct(NoFaults)
    \/ SetSensName(AllNames(sens), NoFaults)
    \/ SetSensIndex(AllIndices(volt), NoFaults)
    \/ GetSens(NoFaults)

\* one instrument suffices there: the other registers are never written
InitSens == Init /\ dev.OFLT = 0 /\ dev.SYNC = 0 /\ dev.FREQ = FreqLimit

SpecSens == InitSens /\ [][NextSens]_vars

-----------------------------------------------------------------------------
(* Properties                                                              *)

\* C1: for every label L of the sensitivity table, setSens(name=L) followed
\* directly by getSens() returns exactly L (the instrument stores the code it
\* is sent and answers SENS ? with it).
C1_SensRoundTrip ==
    (last.op = "getSens" /\ prev.op = "setSens" /\ prev.name # None)
        => (last.outcome = "ok" /\ last.ret = <<prev.name>>)

\* the last label, whose code has two digits, has made the round trip
C1_Witness ==
    /\ last.op = "getSens" /\ last.outcome = "ok"
    /\ prev.op = "setSens" /\ prev.name = "1V"
    /\ last.ret = <<"1V">>
    /\ dev.SENS = 26

\* C2: for every index i in 0..26, setSens(i=i) with no name writes device
\* code i to the SENS register and leaves the cached v equal to the i-th entry
\* of the volts table.
C2_SensIndexSetsCache ==
    (last.op = "setSens" /\ last.name = None /\ last.i \in 0..26)
        => /\ last.outcome = "ok"
           /\ last.io[1] = Ev("write", "SENS ", sens[last.i + 1][2])
           /\ dev.SENS = last.i
           /\ v = volt[last.i + 1]

\* setSens(i=26) has returned: the register holds 26 and v is 1 V
C2_Witness ==
    /\ last.op = "setSens" /\ last.name = None /\ last.i = 26
    /\ last.outcome = "ok"
    /\ dev.SENS = 26
    /\ v = <<1, 0>>

\* C3: setIT without a name and with an index outside 0..19 (negative, or 20
\* and above) fails; it never returns normally.
C3_ITIndexOutOfRangeFails ==
    (last.op = "setIT" /\ last.name = None /\ last.i \notin 0..19)
        => last.outcome # "ok"

\* C4: after close() the session is Closed, every method called afterwards
\* fails without a byte reaching the instrument, and a method returns normally
\* only on an Open session.
C4_ClosedSessionFails ==
    /\ last.op = "close" => session = "Closed"
    /\ (session = "Closed" /\ last.op # "close")
           => (last.outcome # "ok" /\ last.io = <<>>)
    /\ (last.op \notin {"", "SR830", "close"} /\ last.outcome = "ok")
           => session = "Open"

\* a set by index on a closed session has been refused by the transport
C4_Witness ==
    /\ session = "Closed"
    /\ last.op = "setSens" /\ last.name = None /\ last.i = 26
    /\ last.outcome = "InvalidSession"
    /\ last.io = <<>>

\* C5: getOut(i) with i outside {1,2,3,4} fails with the argument error and
\* sends no OUTP? query; with i in {1,2,3,4} it sends exactly one query,
\* OUTP? i, and nothing else.
C5_GetOutChannel ==
    last.op = "getOut" =>
        IF last.i \in {1, 2, 3, 4}
        THEN /\ \/ last.io = <<Ev("query", "OUTP? ", <<Digits[last.i + 1]>>)>>
                \/ last.io = <<>> /\ last.outcome \in {"VisaIOError", "InvalidSession"}
             /\ (session = "Open" /\ last.f = 0)
                    => (last.outcome = "ok" /\ last.io # <<>> /\ last.ret = <<OutVal[last.i]>>)
        ELSE last.outcome = "AssertionError" /\ last.io = <<>>

\* getOut(5) on an open session has been refused before any query
C5_Witness ==
    /\ session = "Open"
    /\ last.op = "getOut" /\ last.i = 5 /\ last.f = 0
    /\ last.outcome = "AssertionError"

\* C6: setSync(1) above 200 Hz still writes SYNC 1, returns normally and
\* prints the advisory; the advisory is printed only when the frequency
\* exceeds 200 Hz and the filter is being enabled.
C6_SyncAdvisory ==
    last.op = "setSync" =>
        /\ last.adv => (dev.FREQ > 200 /\ last.i = 1 /\ last.outcome = "ok")
        /\ (session = "Open" /\ last.f = 0 /\ last.i = 1 /\ dev.FREQ > 200)
               => /\ last.outcome = "ok"
                  /\ last.adv
                  /\ dev.SYNC = 1
                  /\ last.io[1] = Ev("write", "SYNC ", <<"1">>)

\* setSync(1) at 201 Hz has returned with the advisory and the filter on
C6_Witness ==
    /\ last.op = "setSync" /\ last.i = 1 /\ last.outcome = "ok"
    /\ dev.FREQ = 201
    /\ last.adv
    /\ dev.SYNC = 1

\* C7: getSync() directly after setSync(1) returns "ON", and directly after
\* setSync(0) returns "OFF".
C7_GetSyncReportsSetSync ==
    (last.op = "getSync" /\ last.outcome = "ok" /\ prev.op = "setSync")
        => last.ret = <<IF prev.i = 1 THEN "ON" ELSE "OFF">>

\* C8: write(message, q) returns nothing when q is false, and returns the
\* instrument's raw response to the query when q is true.
C8_WriteReturnsResponse ==
    (last.op = "write" /\ last.outcome = "ok")
        => IF last.q THEN last.ret = <<DevQuery(dev, last.msg[1], last.msg[2])>>
           ELSE last.ret = <<>>

\* C9: a setIT or setSens call that fails on an unknown label or on a
\* transport error (on the register write or on the confirming read) leaves
\* it and v as they were; an unknown label also sends nothing.
C9_FailedSetKeepsCache ==
    [][(/\ last'.op \in {"setIT", "setSens"}
        /\ last'.outcome \in {"KeyError", "VisaIOError", "InvalidSession"})
           => /\ it' = it
              /\ v' = v
              /\ last'.outcome = "KeyError" => (last'.io = <<>> /\ dev' = dev)]_vars

\* setIT by name has failed on its confirming read: the register was written,
\* the cache still holds the earlier value
C9_Witness ==
    /\ last.op = "setIT" /\ last.name = "10us"
    /\ last.outcome = "VisaIOError" /\ last.f = 2
    /\ last.io = <<Ev("write", "OFLT ", <<"0">>), Sleep>>
    /\ dev.OFLT = 0
    /\ it = <<3, 4>>

\* C10: every setIT and setSens call that returns normally, by name or by
\* index, has written the register, slept, read the same register back, and
\* left in the cache the table entry of the instrument's register.
C10_SetConfirmsByReading ==
    (last.op \in {"setIT", "setSens"} /\ last.outcome = "ok")
        => /\ Len(last.io) = 3
           /\ last.io[1].kind = "write"
           /\ last.io[2] = Sleep
           /\ last.io[3].kind = "query"
           /\ last.op = "setIT" => it = time[dev.OFLT + 1]
           /\ last.op = "setSens" => v = volt[dev.SENS + 1]

====
